---- MODULE Spec2Model ----
(***************************************************************************)
(* A model of the workshop's text utilities: TextChunker                   *)
(* (DAY_2/chunking_utility.py), FAQFinder (DAY_1/faq_finder.py),           *)
(* TextCleaner (DAY_1/text_cleaner.py) and SemanticSimilarity              *)
(* (DAY_1/semantic_similarity.py).                                         *)
(*                                                                         *)
(* A Python str is a sequence of one-character strings.  Every method is   *)
(* checked under a specification of its own (SpecWords, SpecSent, ...);    *)
(* the variables of the other components stay at their idle values there.  *)
(***************************************************************************)
EXTENDS Integers, Sequences, FiniteSets, TLC

VARIABLES
    chunk_size,         \* TextChunker.chunk_size
    overlap,            \* TextChunker.overlap
    text,               \* the text argument of the running chunking call
    words,              \* chunk_by_words: words = text.split()
    start,              \* chunk_by_words: start
    sentences,          \* chunk_by_sentences: sentences
    idx,                \* chunk_by_sentences: number of sentences the for loop has consumed
    current_chunk,      \* chunk_by_sentences: current_chunk
    current_word_count, \* chunk_by_sentences: current_word_count
    chunk_id,           \* both chunking methods: chunk_id
    chunks,             \* both chunking methods: chunks
    pc,                 \* position of the running chunking call: "loop", "done"
    clean_in,           \* TextCleaner: the text handed to clean_text
    clean_out,          \* TextCleaner: what clean_text returned for it
    clean_again,        \* TextCleaner: what clean_text returned for clean_out
    clean_pc,           \* TextCleaner: how many times clean_text has run
    faqs,               \* FAQFinder.faqs
    query,              \* FAQFinder: the arguments of the last find_answer call
    result,             \* FAQFinder: what the last find_answer call returned
    syn_words,          \* expand_with_synonyms: the set object passed as words
    syn_out,            \* expand_with_synonyms: the set it returned
    syn_pc,             \* expand_with_synonyms: "call" before the call, "done" after it
    faqs_before,        \* load_from_file: FAQFinder.faqs when the call began
    source,             \* load_from_file: the file behind filepath
    load_status,        \* load_from_file: "not called", "returned" or "raised"
    base_vec,           \* SemanticSimilarity: the first vector of the calls
    compare_vecs,       \* compare_multiple: the dict, as its (name, vector) items in iteration order
    other_vec,          \* cosine_similarity: the second vector of the first call
    sim_ab,             \* what cosine_similarity(base_vec, other_vec) did
    sim_ba,             \* what cosine_similarity(other_vec, base_vec) did
    ranking,            \* what compare_multiple(base_vec, compare_vecs) did
    sim_pc,             \* SemanticSimilarity: position of the calling script
    chunk_method,       \* chunk_text: the method argument of the last call
    routed,             \* chunk_text: what the last call did with it
    calls,              \* TextChunker: number of chunk_text calls made on the chunker
    stats,              \* what get_chunk_stats(chunks) did
    self_stop_words,    \* FAQFinder.stop_words, as concurrent callers see it
    self_synonyms,      \* FAQFinder.synonyms, as concurrent callers see it
    callers,            \* concurrent find_answer calls: position, arguments and return value of each
    frames              \* concurrent find_answer calls: the local variables of each call's frame

chunkerVars == <<chunk_size, overlap, text, words, start, sentences, idx,
                 current_chunk, current_word_count, chunk_id, chunks, pc>>

cleanVars == <<clean_in, clean_out, clean_again, clean_pc>>

faqVars == <<faqs, query, result>>

synVars == <<syn_words, syn_out, syn_pc>>

loadVars == <<faqs_before, source, load_status>>

simVars == <<base_vec, compare_vecs, other_vec, sim_ab, sim_ba, ranking, sim_pc>>

dispatchVars == <<chunk_method, routed, calls, stats>>

concVars == <<self_stop_words, self_synonyms, callers, frames>>

restVars == <<synVars, loadVars, simVars, dispatchVars, concVars>>

vars == <<chunkerVars, cleanVars, faqVars, restVars>>

\* a component that is not running
ChunkerIdle ==
    /\ chunk_size = 1
    /\ overlap = 0
    /\ text = <<>>
    /\ words = <<>>
    /\ start = 0
    /\ sentences = <<>>
    /\ idx = 0
    /\ current_chunk = <<>>
    /\ current_word_count = 0
    /\ chunk_id = 0
    /\ chunks = <<>>
    /\ pc = "done"

CleanIdle ==
    /\ clean_in = <<>>
    /\ clean_out = <<>>
    /\ clean_again = <<>>
    /\ clean_pc = 0

NoCall == [user_question |-> <<>>, threshold |-> <<0, 1>>]

NoResult ==
    [answer |-> "", confidence |-> <<0, 1>>, matched_question |-> <<>>,
     raised |-> "not called"]

FaqIdle ==
    /\ faqs = <<>>
    /\ query = NoCall
    /\ result = NoResult

SynIdle ==
    /\ syn_words = {}
    /\ syn_out = {}
    /\ syn_pc = "done"

NoSource == [exists |-> FALSE, lines |-> <<>>, read_error |-> "", fails_after |-> 0]

LoadIdle ==
    /\ faqs_before = <<>>
    /\ source = NoSource
    /\ load_status = "not called"

NotCalled == [raised |-> "not called"]

SimIdle ==
    /\ base_vec = <<>>
    /\ compare_vecs = <<>>
    /\ other_vec = <<>>
    /\ sim_ab = NotCalled
    /\ sim_ba = NotCalled
    /\ ranking = NotCalled
    /\ sim_pc = "done"

DispatchIdle ==
    /\ chunk_method = ""
    /\ routed = ""
    /\ calls = 0
    /\ stats = NotCalled

ConcIdle ==
    /\ self_stop_words = {}
    /\ self_synonyms = <<>>
    /\ callers = <<>>
    /\ frames = <<>>

RestIdle == SynIdle /\ LoadIdle /\ SimIdle /\ DispatchIdle /\ ConcIdle

(***************************************************************************)
(* Bounds of the model.                                                    *)
(***************************************************************************)
MaxWords == 26
MaxChunkSize == 10
MaxOverlap == 11

\* chunk_by_words appends at most one chunk per word (start grows strictly);
\* the cap only keeps a non-terminating variant of the loop finite.
ChunkCap == MaxWords + 2

(***************************************************************************)
(* Python string helpers.                                                  *)
(***************************************************************************)
WhiteSpace == {" ", "\t", "\n"}

IsSpace(c) == c \in WhiteSpace

Min(a, b) == IF a <= b THEN a ELSE b

RECURSIVE SplitFrom(_, _, _, _)
SplitFrom(s, i, cur, acc) ==
    IF i > Len(s)
    THEN IF cur = <<>> THEN acc ELSE Append(acc, cur)
    ELSE IF IsSpace(s[i])
         THEN SplitFrom(s, i + 1, <<>>, IF cur = <<>> THEN acc ELSE Append(acc, cur))
         ELSE SplitFrom(s, i + 1, Append(cur, s[i]), acc)

\* str.split(): the maximal runs of non-whitespace characters, in order.
Split(s) == SplitFrom(s, 1, <<>>, <<>>)

RECURSIVE Join(_)
\* ' '.join(parts)
Join(parts) ==
    IF parts = <<>> THEN <<>>
    ELSE IF Len(parts) = 1 THEN parts[1]
    ELSE parts[1] \o <<" ">> \o Join(Tail(parts))

\* words[start:end] for 0 <= start <= end <= len(words)
Slice(s, from, to) == SubSeq(s, from + 1, to)

\* str.strip(): without its leading and trailing whitespace
RECURSIVE LStrip(_)
LStrip(s) == IF s # <<>> /\ IsSpace(Head(s)) THEN LStrip(Tail(s)) ELSE s

RECURSIVE RStrip(_)
RStrip(s) ==
    IF s # <<>> /\ IsSpace(s[Len(s)]) THEN RStrip(SubSeq(s, 1, Len(s) - 1)) ELSE s

Strip(s) == RStrip(LStrip(s))

\* the first position at or after i that holds no whitespace (Len(s) + 1 if none)
RECURSIVE SkipSpace(_, _)
SkipSpace(s, i) ==
    IF i <= Len(s) /\ IsSpace(s[i]) THEN SkipSpace(s, i + 1) ELSE i

\* all strings over an alphabet of at most n characters
Strings(alphabet, n) == UNION {[1..k -> alphabet] : k \in 0..n}

RECURSIVE RepeatWord(_)
\* the text "w w ... w" of n words
RepeatWord(n) ==
    IF n = 0 THEN <<>>
    ELSE IF n = 1 THEN <<"w">>
    ELSE <<"w", " ">> \o RepeatWord(n - 1)

(***************************************************************************)
(* TextChunker.chunk_by_words                                              *)
(***************************************************************************)
WordTexts == {RepeatWord(n) : n \in 0..MaxWords}

InitWords ==
    /\ chunk_size \in 1..MaxChunkSize
    /\ overlap \in 0..MaxOverlap
    /\ text \in WordTexts
    /\ words = Split(text)
    /\ start = 0
    /\ chunk_id = 0
    /\ chunks = <<>>
    /\ pc = "loop"
    /\ sentences = <<>>
    /\ idx = 0
    /\ current_chunk = <<>>
    /\ current_word_count = 0
    /\ CleanIdle
    /\ FaqIdle
    /\ RestIdle

\* the dictionary of lines 192-199 recording the nominal size as word_count
WordChunkMut(id, from, to) ==
    [chunk_id |-> id,
     text |-> Join(Slice(words, from, to)),
     start_word |-> from,
     end_word |-> to,
     word_count |-> chunk_size,
     method |-> "word-based"]

WordChunk(id, from, to) ==
    [chunk_id |-> id,
     text |-> Join(Slice(words, from, to)),
     start_word |-> from,
     end_word |-> to,
     word_count |-> Len(Slice(words, from, to)),
     method |-> "word-based"]

\* line 207: the guard that ends the loop when the window did not advance
NoAdvanceMut(next_start, prev_start) == next_start < prev_start

NoAdvance(next_start, prev_start) == next_start <= prev_start

\* one pass of the while loop body (lines 183-208)
WordsIter ==
    /\ pc = "loop"
    /\ start < Len(words)
    /\ Len(chunks) < ChunkCap
    /\ LET end == Min(start + chunk_size, Len(words))
           next_start == end - overlap
       IN /\ chunks' = Append(chunks, WordChunk(chunk_id, start, end))
          /\ chunk_id' = chunk_id + 1
          /\ start' = next_start
          /\ pc' = IF NoAdvance(next_start, start) THEN "done" ELSE "loop"
    /\ UNCHANGED <<cleanVars, faqVars, restVars>>
    /\ UNCHANGED <<chunk_size, overlap, text, words, sentences, idx,
                   current_chunk, current_word_count>>

\* the while condition fails: return chunks (lines 183, 210)
WordsExit ==
    /\ pc = "loop"
    /\ ~(start < Len(words))
    /\ pc' = "done"
    /\ UNCHANGED <<cleanVars, faqVars, restVars>>
    /\ UNCHANGED <<chunk_size, overlap, text, words, start, sentences, idx,
                   current_chunk, current_word_count, chunk_id, chunks>>

NextWords == WordsIter \/ WordsExit

SpecWords == InitWords /\ [][NextWords]_vars

\* chunk_by_words is a sequential loop: a step that can be taken is taken
FairSpecWords == SpecWords /\ WF_vars(NextWords)

(***************************************************************************)
(* Claims about chunk_by_words                                             *)
(***************************************************************************)
LastChunk == chunks[Len(chunks)]

\* C1: with 0 < overlap < chunk_size, consecutive chunks of the returned list
\* have start_word offsets that differ by exactly chunk_size - overlap, and the
\* last chunk's end_word is the total word count.
C1_StartsAdvanceByStride ==
    (pc = "done" /\ 0 < overlap /\ overlap < chunk_size) =>
        /\ \A i \in 1..(Len(chunks) - 1) :
              chunks[i + 1].start_word - chunks[i].start_word = chunk_size - overlap
        /\ (chunks # <<>> => LastChunk.end_word = Len(words))

\* C28: with 0 <= overlap < chunk_size the chunks of a text of N words cover
\* every word: there is a chunk when N > 0, the first chunk starts at word 0,
\* each following chunk starts at or before the end_word of the chunk before,
\* the last chunk's end_word is N, and every chunk has
\* 1 <= word_count = end_word - start_word <= chunk_size.
C28_ChunksCoverWords ==
    (pc = "done" /\ overlap < chunk_size) =>
        /\ (Len(words) > 0 => chunks # <<>>)
        /\ (chunks # <<>> =>
              /\ chunks[1].start_word = 0
              /\ LastChunk.end_word = Len(words))
        /\ \A k \in 2..Len(chunks) : chunks[k].start_word <= chunks[k - 1].end_word
        /\ \A k \in 1..Len(chunks) :
              /\ 1 <= chunks[k].word_count
              /\ chunks[k].word_count = chunks[k].end_word - chunks[k].start_word
              /\ chunks[k].word_count <= chunk_size

\* 25 words in windows of 10 with overlap 3, the last window shorter
C28_Witness ==
    /\ pc = "done"
    /\ chunk_size = 10
    /\ overlap = 3
    /\ Len(words) = 25
    /\ Len(chunks) >= 4
    /\ chunks[4].start_word = 21
    /\ chunks[4].word_count = 4

\* C29: with 0 <= overlap < chunk_size every chunk after the first has an
\* end_word strictly greater than the end_word of the chunk before it.
C29_NoRedundantChunk ==
    (pc = "done" /\ overlap < chunk_size) =>
        \A k \in 2..Len(chunks) : chunks[k].end_word > chunks[k - 1].end_word

\* C2: chunk_by_words terminates for every text, chunk_size >= 1 and
\* overlap >= 0 (overlap >= chunk_size included), and a pass whose next start
\* does not exceed the start_word of the chunk it appended ends the loop.
C2_Terminates ==
    /\ <>(pc = "done")
    /\ [][(pc = "loop" /\ Len(chunks') = Len(chunks) + 1
             /\ start' <= chunks'[Len(chunks')].start_word) => pc' = "done"]_vars

\* a finished call in a degenerate configuration, on a text longer than a chunk
C2_Witness ==
    /\ pc = "done"
    /\ overlap >= chunk_size
    /\ Len(words) > chunk_size
    /\ Len(chunks) = 1

(***************************************************************************)
(* TextChunker.split_into_sentences, count_words, chunk_by_sentences       *)
(***************************************************************************)
MaxTextLen == 8
MaxSentChunkSize == 3

SentenceEnd == {".", "!", "?"}

SentAlphabet == {"a", " ", "."}

\* re.split(r'(?<=[.!?])\s+', s): a separator is a maximal run of whitespace
\* that starts right after '.', '!' or '?'; the pieces between separators are
\* returned, the empty ones included.
RECURSIVE ReSplitFrom(_, _, _, _)
ReSplitFrom(s, i, cur, acc) ==
    IF i > Len(s) THEN Append(acc, cur)
    ELSE IF IsSpace(s[i]) /\ i > 1 /\ s[i - 1] \in SentenceEnd
         THEN ReSplitFrom(s, SkipSpace(s, i), <<>>, Append(acc, cur))
         ELSE ReSplitFrom(s, i + 1, Append(cur, s[i]), acc)

NonBlank(s) == Strip(s) # <<>>

RECURSIVE StripAll(_)
StripAll(parts) ==
    IF parts = <<>> THEN <<>> ELSE <<Strip(Head(parts))>> \o StripAll(Tail(parts))

\* split_into_sentences (lines 121-126)
split_into_sentences(t) == StripAll(SelectSeq(ReSplitFrom(t, 1, <<>>, <<>>), NonBlank))

\* count_words (line 141)
count_words(t) == Len(Split(t))

\* the sum of line 274 counting the sentences instead of their words
SumWordsMut(sents) == Len(sents)

RECURSIVE SumWords(_)
\* sum(self.count_words(s) for s in sents)
SumWords(sents) ==
    IF sents = <<>> THEN 0 ELSE count_words(Head(sents)) + SumWords(Tail(sents))

InitSent ==
    /\ chunk_size \in 1..MaxSentChunkSize
    /\ overlap = 0
    /\ text \in Strings(SentAlphabet, MaxTextLen)
    /\ sentences = split_into_sentences(text)
    /\ idx = 0
    /\ current_chunk = <<>>
    /\ current_word_count = 0
    /\ chunk_id = 0
    /\ chunks = <<>>
    /\ pc = "loop"
    /\ words = <<>>
    /\ start = 0
    /\ CleanIdle
    /\ FaqIdle
    /\ RestIdle

SentChunk(id, sents, wc) ==
    [chunk_id |-> id,
     text |-> Join(sents),
     sentence_count |-> Len(sents),
     word_count |-> wc,
     method |-> "sentence-based"]

\* line 261: flush before adding the sentence
MustFlushMut(cwc, swc, cur) == swc > chunk_size /\ cur # <<>>

MustFlush(cwc, swc, cur) == cwc + swc > chunk_size /\ cur # <<>>

\* line 272: the sentences carried into the next chunk
OverlapSentencesMut(cur) ==
    IF Len(cur) >= 2 THEN SubSeq(cur, Len(cur), Len(cur)) ELSE cur

OverlapSentences(cur) ==
    IF Len(cur) >= 2 THEN SubSeq(cur, Len(cur) - 1, Len(cur)) ELSE cur

\* one pass of the for loop body (lines 257-280)
SentIter ==
    /\ pc = "loop"
    /\ idx < Len(sentences)
    /\ LET sentence == sentences[idx + 1]
           sentence_word_count == count_words(sentence)
           flush == MustFlush(current_word_count, sentence_word_count, current_chunk)
           kept == IF flush THEN OverlapSentences(current_chunk) ELSE current_chunk
           kept_count == IF flush THEN SumWords(kept) ELSE current_word_count
       IN /\ chunks' = IF flush
                       THEN Append(chunks, SentChunk(chunk_id, current_chunk,
                                                     current_word_count))
                       ELSE chunks
          /\ chunk_id' = IF flush THEN chunk_id + 1 ELSE chunk_id
          /\ current_chunk' = Append(kept, sentence)
          /\ current_word_count' = kept_count + sentence_word_count
    /\ idx' = idx + 1
    /\ UNCHANGED <<cleanVars, faqVars, restVars>>
    /\ UNCHANGED <<chunk_size, overlap, text, words, start, sentences, pc>>

\* after the loop: save the last chunk and return (lines 283-292)
SentFinish ==
    /\ pc = "loop"
    /\ idx = Len(sentences)
    /\ chunks' = IF current_chunk # <<>>
                 THEN Append(chunks, SentChunk(chunk_id, current_chunk,
                                               current_word_count))
                 ELSE chunks
    /\ pc' = "done"
    /\ UNCHANGED <<cleanVars, faqVars, restVars>>
    /\ UNCHANGED <<chunk_size, overlap, text, words, start, sentences, idx,
                   current_chunk, current_word_count, chunk_id>>

NextSent == SentIter \/ SentFinish

SpecSent == InitSent /\ [][NextSent]_vars

(***************************************************************************)
(* Claims about chunk_by_sentences                                         *)
(***************************************************************************)
\* the number of sentences chunk k takes over from chunk k - 1
Carried(k) == IF k = 1 THEN 0 ELSE Min(2, chunks[k - 1].sentence_count)

\* the number of sentences of chunk k that no earlier chunk holds
NewCount(k) == chunks[k].sentence_count - Carried(k)

RECURSIVE NewBefore(_)
NewBefore(k) == IF k <= 1 THEN 0 ELSE NewBefore(k - 1) + NewCount(k - 1)

\* the positions in sentences of chunk k's first and last sentence
FirstSent(k) == NewBefore(k) + 1 - Carried(k)

LastSent(k) == NewBefore(k) + NewCount(k)

LongSentence(i) == count_words(sentences[i]) > chunk_size

\* chunk k is the run FirstSent(k)..LastSent(k) of whole sentences
WholeSentences(k) ==
    /\ 1 <= FirstSent(k)
    /\ LastSent(k) <= Len(sentences)
    /\ chunks[k].text = Join(SubSeq(sentences, FirstSent(k), LastSent(k)))
    /\ split_into_sentences(chunks[k].text)
          = SubSeq(sentences, FirstSent(k), LastSent(k))

\* C3: every chunk is a contiguous run of whole sentences of
\* split_into_sentences, and the chunks in order, each without the sentences
\* carried over from the chunk before it, give the sentence sequence back:
\* every sentence once, in order.
C3_SentencesReconstructed ==
    pc = "done" =>
        /\ \A k \in 1..Len(chunks) : WholeSentences(k) /\ NewCount(k) >= 0
        /\ NewBefore(Len(chunks) + 1) = Len(sentences)

\* a call that returned three chunks or more, one of them carrying two sentences
C3_Witness ==
    /\ pc = "done"
    /\ Len(chunks) >= 3
    /\ Len(sentences) >= 4
    /\ \E k \in 2..Len(chunks) : Carried(k) = 2 /\ NewCount(k) >= 1

Contained(k) == split_into_sentences(chunks[k].text)

\* the number of words of the given sentences
RECURSIVE WordsIn(_)
WordsIn(sents) ==
    IF sents = <<>> THEN 0 ELSE Len(Split(Head(sents))) + WordsIn(Tail(sents))

\* the last two of the given sentences, or all of them when there are fewer
LastTwo(sents) ==
    IF Len(sents) >= 2 THEN SubSeq(sents, Len(sents) - 1, Len(sents)) ELSE sents

\* C26: every chunk after the first begins with the last two sentences of the
\* preceding chunk (all of them when it had fewer than two) followed by at
\* least one new sentence; every chunk's word_count is the sum of the word
\* counts of the sentences it contains and its sentence_count is their number.
C26_SeedThenNewSentence ==
    pc = "done" =>
        \A k \in 1..Len(chunks) :
            /\ chunks[k].word_count = WordsIn(Contained(k))
            /\ chunks[k].sentence_count = Len(Contained(k))
            /\ k > 1 =>
                  LET seed == LastTwo(Contained(k - 1))
                  IN /\ Len(Contained(k)) > Len(seed)
                     /\ SubSeq(Contained(k), 1, Len(seed)) = seed
                     /\ SubSeq(Contained(k), Len(seed) + 1, Len(Contained(k)))
                           = SubSeq(sentences, NewBefore(k) + 1, LastSent(k))

\* 'a. a. a.' with chunk_size 1: the second chunk is seeded with the one
\* sentence of the first, the third with the two sentences of the second
C26_Witness ==
    /\ pc = "done"
    /\ chunk_size = 1
    /\ Len(chunks) = 3
    /\ chunks[1].sentence_count = 1
    /\ chunks[2].sentence_count = 2
    /\ chunks[3].sentence_count = 3
    /\ chunks[3].word_count = 3

\* C30: when every sentence of the text has at most chunk_size words, every
\* returned chunk has word_count at most chunk_size.
C30_ChunksWithinChunkSize ==
    pc = "done" =>
        ((\A i \in DOMAIN sentences : ~LongSentence(i)) =>
            \A k \in 1..Len(chunks) : chunks[k].word_count <= chunk_size)

(***************************************************************************)
(* TextCleaner.clean_text                                                  *)
(***************************************************************************)
MaxCleanLen == 4

UpperLetters == <<"A", "B", "C", "D", "E", "F", "G", "H", "I", "J", "K", "L", "M", "N", "O", "P", "Q", "R", "S", "T", "U", "V", "W", "X", "Y", "Z">>

LowerLetters == <<"a", "b", "c", "d", "e", "f", "g", "h", "i", "j", "k", "l", "m", "n", "o", "p", "q", "r", "s", "t", "u", "v", "w", "x", "y", "z">>

Digits == {"0", "1", "2", "3", "4", "5", "6", "7", "8", "9"}

Range(s) == {s[i] : i \in DOMAIN s}

UpperSet == Range(UpperLetters)

\* str.lower() on an upper-case letter
LowerOf ==
    [c \in UpperSet |->
        LowerLetters[CHOOSE i \in DOMAIN UpperLetters : UpperLetters[i] = c]]

\* str.lower() on one character
LowerChar(c) == IF c \in UpperSet THEN LowerOf[c] ELSE c

\* text.lower() (line 46)
Lower(t) == [i \in DOMAIN t |-> LowerChar(t[i])]

\* the characters the pattern [^a-z0-9\s] leaves alone
KeptChars == Range(LowerLetters) \cup Digits \cup WhiteSpace

KeptMut(c) == c \in KeptChars \cup {"!"}

Kept(c) == c \in KeptChars

\* re.sub(r'[^a-z0-9\s]', ' ', t) (line 55)
ReplaceSpecial(t) == [i \in DOMAIN t |-> IF Kept(t[i]) THEN t[i] ELSE " "]

\* re.sub(r'\s+', ' ', t) (line 60): every run of whitespace becomes one space
RECURSIVE CollapseFrom(_, _)
CollapseFrom(t, i) ==
    IF i > Len(t) THEN <<>>
    ELSE IF IsSpace(t[i]) THEN <<" ">> \o CollapseFrom(t, SkipSpace(t, i))
    ELSE <<t[i]>> \o CollapseFrom(t, i + 1)

CollapseSpaces(t) == CollapseFrom(t, 1)

\* text.strip() (line 50)
StripStep(t) == Strip(t)

\* clean_text (lines 46-62): lower, strip, replace, collapse, in this order
clean_text(t) == CollapseSpaces(ReplaceSpecial(StripStep(Lower(t))))

\* the docstring's example input (line 41)
DocExample == <<" ", " ", "H", "e", "l", "l", "o", ",", " ", "W", "o", "r", "l", "d", "!", "!", "!", " ", " ">>

CleanAlphabet == {"a", "B", "1", " ", "\t", "!"}

CleanInputs == Strings(CleanAlphabet, MaxCleanLen) \cup {DocExample}

InitClean ==
    /\ clean_in \in CleanInputs
    /\ clean_out = <<>>
    /\ clean_again = <<>>
    /\ clean_pc = 0
    /\ ChunkerIdle
    /\ FaqIdle
    /\ RestIdle

\* cleaned = cleaner.clean_text(text)
CleanOnce ==
    /\ clean_pc = 0
    /\ clean_out' = clean_text(clean_in)
    /\ clean_pc' = 1
    /\ UNCHANGED <<clean_in, clean_again, chunkerVars, faqVars, restVars>>

\* cleaner.clean_text(cleaned)
CleanAgain ==
    /\ clean_pc = 1
    /\ clean_again' = clean_text(clean_out)
    /\ clean_pc' = 2
    /\ UNCHANGED <<clean_in, clean_out, chunkerVars, faqVars, restVars>>

NextClean == CleanOnce \/ CleanAgain

SpecClean == InitClean /\ [][NextClean]_vars

(***************************************************************************)
(* Claims about clean_text                                                 *)
(***************************************************************************)
\* C9: clean_text is idempotent: clean_text(clean_text(T)) = clean_text(T)
\* for every input T.
C9_Idempotent == clean_pc = 2 => clean_again = clean_out

\* C10: the result of clean_text has no leading and no trailing whitespace,
\* and clean_text('  Hello, World!!!  ') is 'hello world'.
C10_NoEdgeWhitespace ==
    clean_pc >= 1 =>
        /\ clean_out = Strip(clean_out)
        /\ (clean_in = DocExample =>
               clean_out = <<"h", "e", "l", "l", "o", " ", "w", "o", "r", "l", "d">>)

\* the characters a cleaned text may hold
CleanChars == Range(LowerLetters) \cup Digits \cup {" "}

OnlyCleanChars(t) ==
    /\ \A i \in DOMAIN t : t[i] \in CleanChars
    /\ \A i \in 1..(Len(t) - 1) : ~(t[i] = " " /\ t[i + 1] = " ")

\* C11: for every input, the result of clean_text holds only the letters
\* a-z, the digits 0-9 and the space, and never two spaces in a row.
C11_OnlyCleanChars ==
    /\ clean_pc >= 1 => OnlyCleanChars(clean_out)
    /\ clean_pc = 2 => OnlyCleanChars(clean_again)

\* 'a\t!B' has an upper-case letter, a tab and a special character next to
\* each other; it is cleaned to 'a b'
C11_Witness ==
    /\ clean_pc >= 1
    /\ clean_in = <<"a", "\t", "!", "B">>
    /\ clean_out = <<"a", " ", "b">>

(***************************************************************************)
(* FAQFinder                                                               *)
(***************************************************************************)
MaxFaqs == 2

\* self.stop_words (lines 45-49)
stop_words ==
    {<<"a">>,
     <<"a", "n">>,
     <<"t", "h", "e">>,
     <<"i", "s">>,
     <<"a", "r", "e">>,
     <<"a", "m">>,
     <<"b", "e">>,
     <<"t", "o">>,
     <<"o", "f">>,
     <<"i", "n">>,
     <<"o", "n">>,
     <<"a", "t">>,
     <<"f", "o", "r">>,
     <<"w", "i", "t", "h">>,
     <<"d", "o">>,
     <<"d", "o", "e", "s">>,
     <<"i">>,
     <<"y", "o", "u">>,
     <<"w", "e">>,
     <<"t", "h", "e", "y">>,
     <<"t", "h", "e", "r", "e">>,
     <<"c", "a", "n">>,
     <<"w", "i", "l", "l">>,
     <<"i", "t">>,
     <<"w", "h", "a", "t">>,
     <<"h", "o", "w">>,
     <<"w", "h", "e", "n">>,
     <<"w", "h", "e", "r", "e">>}

\* self.synonyms (lines 52-65): word -> list of words
synonyms ==
    (<<"s", "i", "g", "n">> :>
          <<<<"r", "e", "g", "i", "s", "t", "e", "r">>, <<"s", "i", "g", "n", "u", "p">>, <<"j", "o", "i", "n">>, <<"e", "n", "r", "o", "l", "l">>>>)
    @@ (<<"r", "e", "g", "i", "s", "t", "e", "r">> :>
          <<<<"s", "i", "g", "n">>, <<"s", "i", "g", "n", "u", "p">>, <<"j", "o", "i", "n">>, <<"e", "n", "r", "o", "l", "l">>>>)
    @@ (<<"s", "i", "g", "n", "u", "p">> :>
          <<<<"s", "i", "g", "n">>, <<"r", "e", "g", "i", "s", "t", "e", "r">>, <<"j", "o", "i", "n">>, <<"e", "n", "r", "o", "l", "l">>>>)
    @@ (<<"p", "a", "y">> :>
          <<<<"f", "e", "e">>, <<"c", "o", "s", "t">>, <<"p", "r", "i", "c", "e">>, <<"m", "o", "n", "e", "y">>, <<"c", "h", "a", "r", "g", "e">>>>)
    @@ (<<"f", "e", "e">> :>
          <<<<"p", "a", "y">>, <<"c", "o", "s", "t">>, <<"p", "r", "i", "c", "e">>, <<"m", "o", "n", "e", "y">>, <<"c", "h", "a", "r", "g", "e">>>>)
    @@ (<<"c", "o", "s", "t">> :>
          <<<<"p", "a", "y">>, <<"f", "e", "e">>, <<"p", "r", "i", "c", "e">>, <<"m", "o", "n", "e", "y">>, <<"c", "h", "a", "r", "g", "e">>>>)
    @@ (<<"s", "t", "a", "r", "t">> :>
          <<<<"s", "c", "h", "e", "d", "u", "l", "e">>, <<"t", "i", "m", "e">>, <<"b", "e", "g", "i", "n">>, <<"w", "h", "e", "n">>>>)
    @@ (<<"t", "i", "m", "e">> :>
          <<<<"s", "c", "h", "e", "d", "u", "l", "e">>, <<"s", "t", "a", "r", "t">>, <<"w", "h", "e", "n">>>>)
    @@ (<<"w", "h", "e", "n">> :>
          <<<<"t", "i", "m", "e">>, <<"s", "c", "h", "e", "d", "u", "l", "e">>, <<"s", "t", "a", "r", "t">>>>)
    @@ (<<"w", "h", "e", "r", "e">> :>
          <<<<"v", "e", "n", "u", "e">>, <<"l", "o", "c", "a", "t", "i", "o", "n">>, <<"p", "l", "a", "c", "e">>>>)
    @@ (<<"v", "e", "n", "u", "e">> :>
          <<<<"w", "h", "e", "r", "e">>, <<"l", "o", "c", "a", "t", "i", "o", "n">>, <<"p", "l", "a", "c", "e">>>>)
    @@ (<<"l", "o", "c", "a", "t", "i", "o", "n">> :>
          <<<<"w", "h", "e", "r", "e">>, <<"v", "e", "n", "u", "e">>, <<"p", "l", "a", "c", "e">>>>)

\* The questions and queries of the model:
\*   'How do I register?'
\*   'how do i register!'
\*   'How can I sign up?'
\*   'What is the fee?'
\*   'How do I'
\*   'pay'
\*   'join'
\*   'venue'
\*   '?'
\*   ''
FaqTexts ==
    {<<"H", "o", "w", " ", "d", "o", " ", "I", " ", "r", "e", "g", "i", "s", "t", "e", "r", "?">>,
     <<"h", "o", "w", " ", "d", "o", " ", "i", " ", "r", "e", "g", "i", "s", "t", "e", "r", "!">>,
     <<"H", "o", "w", " ", "c", "a", "n", " ", "I", " ", "s", "i", "g", "n", " ", "u", "p", "?">>,
     <<"W", "h", "a", "t", " ", "i", "s", " ", "t", "h", "e", " ", "f", "e", "e", "?">>,
     <<"H", "o", "w", " ", "d", "o", " ", "I">>,
     <<"p", "a", "y">>,
     <<"j", "o", "i", "n">>,
     <<"v", "e", "n", "u", "e">>,
     <<"?">>,
     <<>>}

\* the answer registered with the n-th entry; entries differ in their answers
AnswerTexts == <<"Visit our site.", "answer 2", "answer 3", "answer 4">>

\* A score is the exact value of the float: the fraction <<n, d>> in lowest
\* terms (the quotients of these small integers and the thresholds below are
\* distinct floats exactly when they are distinct fractions).
RECURSIVE Gcd(_, _)
Gcd(a, b) == IF b = 0 THEN a ELSE Gcd(b, a % b)

Frac(n, d) == <<n \div Gcd(n, d), d \div Gcd(n, d)>>

Zero == <<0, 1>>

One == <<1, 1>>

Less(x, y) == x[1] * y[2] < y[1] * x[2]

\* threshold values: 0.0, the default 0.15, 0.5, 1.0
Thresholds == {Zero, <<3, 20>>, <<1, 2>>, One}

\* clean_text of the model's texts, evaluated once per run
CleanOf == [t \in FaqTexts |-> clean_text(t)]

\* the dictionary of lines 86-90
NewFaq(question, answer) ==
    [question |-> question,
     answer |-> answer,
     question_clean |-> CleanOf[question]]

\* add_faq skipping a question that is already stored
add_faqMut(fs, question, answer) ==
    IF \E i \in DOMAIN fs : fs[i].question = question
    THEN fs
    ELSE Append(fs, NewFaq(question, answer))

\* add_faq (lines 86-90): self.faqs.append({...})
add_faq(fs, question, answer) == Append(fs, NewFaq(question, answer))

\* lines 130-133, following the synonyms of the synonyms as well
SynonymsAddedMut(expanded, word) ==
    IF word \in DOMAIN synonyms
    THEN expanded \cup Range(synonyms[word])
         \cup UNION {Range(synonyms[v]) :
                        v \in Range(synonyms[word]) \cap DOMAIN synonyms}
    ELSE expanded

\* lines 130-133: one pass of the loop body for word
SynonymsAdded(expanded, word) ==
    IF word \in DOMAIN synonyms
    THEN expanded \cup Range(synonyms[word])
    ELSE expanded

\* lines 128-133: for word in words, with todo the words not yet visited
\* (a set is iterated in an order of its own; the updates commute)
RECURSIVE ExpandLoop(_, _)
ExpandLoop(todo, expanded) ==
    IF todo = {} THEN expanded
    ELSE LET word == CHOOSE w \in todo : TRUE
         IN ExpandLoop(todo \ {word}, SynonymsAdded(expanded, word))

\* expand_with_synonyms (lines 125-135): expanded = set(words) is a new set,
\* the loop reads words and writes expanded only
expand_with_synonyms(ws) == ExpandLoop(ws, ws)

\* set(clean.split())
Tokens(clean) == Range(Split(clean))

\* lines 173-181 and 191-197 without the synonym expansion
ScoringWordsMut(clean) ==
    LET raw == Tokens(clean) \ stop_words
    IN IF raw = {} THEN Tokens(clean) ELSE raw

\* lines 173-181 and 191-197 without the fallback of lines 180-181 and
\* 196-197
ScoringWordsNoFallback(clean) == expand_with_synonyms(Tokens(clean) \ stop_words)

\* lines 173-181 for the query, lines 191-197 for a stored question
ScoringWords(clean) ==
    LET raw == Tokens(clean) \ stop_words
        expanded == expand_with_synonyms(raw)
    IN IF expanded = {} THEN Tokens(clean) ELSE expanded

\* ScoringWords of the model's normalized texts, evaluated once per run
ScoringWordsOf == [c \in {CleanOf[t] : t \in FaqTexts} |-> ScoringWords(c)]

\* lines 204-214, with the quotient computed wrongly
JaccardMut(user_words, faq_words) ==
    IF Cardinality(user_words \cup faq_words) > 0
    THEN Frac(Cardinality(user_words \cap faq_words),
              Cardinality(user_words) + Cardinality(faq_words))
    ELSE Zero

\* lines 204-214: |intersection| / |union|, 0.0 for an empty union
Jaccard(user_words, faq_words) ==
    IF Cardinality(user_words \cup faq_words) > 0
    THEN Frac(Cardinality(user_words \cap faq_words),
              Cardinality(user_words \cup faq_words))
    ELSE Zero

\* line 217 with >= for >
BeatsMut(score, best_score) == ~Less(score, best_score)

\* line 217: score > best_score
Beats(score, best_score) == Less(best_score, score)

\* the for loop of lines 188-219 from entry i on; best_match is the index of
\* the entry held in best_match, 0 for None
RECURSIVE BestFrom(_, _, _, _, _)
BestFrom(fs, i, user_words, best_match, best_score) ==
    IF i > Len(fs) THEN [best_match |-> best_match, best_score |-> best_score]
    ELSE LET score == Jaccard(user_words, ScoringWordsOf[fs[i].question_clean])
         IN IF Beats(score, best_score)
            THEN BestFrom(fs, i + 1, user_words, i, score)
            ELSE BestFrom(fs, i + 1, user_words, best_match, best_score)

\* line 160 with the guard lost
NoFaqsLoadedMut(fs) == Len(fs) < 0

\* line 160: not self.faqs
NoFaqsLoaded(fs) == fs = <<>>

\* The value find_answer returns, or the exception it raises.  matched_question
\* is <<>> for None and <<q>> for the question q; the fixed answers are the
\* source's messages without their emoji.
Returned(answer, confidence, matched_question) ==
    [answer |-> answer, confidence |-> confidence,
     matched_question |-> matched_question, raised |-> ""]

\* best_match['answer'] with best_match = None (line 230)
Raised(exception) ==
    [answer |-> "", confidence |-> Zero, matched_question |-> <<>>,
     raised |-> exception]

\* the answers of lines 162 and 224
NoFaqsMessage == "No FAQs loaded yet! Please add some FAQs first."

NoGoodMatch == "I couldn't find a good answer to that question. Could you rephrase it?"

\* find_answer, lines 169-219: best_match and best_score after the loop
Scan(fs, user_question) ==
    LET user_clean == CleanOf[user_question]
    IN BestFrom(fs, 1, ScoringWordsOf[user_clean], 0, Zero)

\* find_answer, its three returns (lines 160-165 and 222-233); best is what
\* the loop left (the early return for an empty list does not read it)
Outcome(fs, best, threshold) ==
    IF NoFaqsLoaded(fs)
    THEN Returned(NoFaqsMessage, Zero, <<>>)
    ELSE IF Less(best.best_score, threshold)
    THEN Returned(NoGoodMatch, best.best_score, <<>>)
    ELSE IF best.best_match = 0
    THEN Raised("TypeError")
    ELSE Returned(fs[best.best_match].answer, best.best_score,
                  <<fs[best.best_match].question>>)

\* find_answer (lines 160-233)
find_answer(fs, user_question, threshold) ==
    Outcome(fs, Scan(fs, user_question), threshold)

InitFaq ==
    /\ FaqIdle
    /\ ChunkerIdle
    /\ CleanIdle
    /\ RestIdle

\* finder.add_faq(question, answer) for one of the given questions, while the
\* list holds fewer than cap entries; the result of an earlier find_answer
\* call says nothing about the new list and is forgotten
AddFaqOf(questions, cap) ==
    /\ Len(faqs) < cap
    /\ Len(faqs) < Len(AnswerTexts)
    /\ \E question \in questions :
          faqs' = add_faq(faqs, question, AnswerTexts[Len(faqs) + 1])
    /\ query' = NoCall
    /\ result' = NoResult
    /\ UNCHANGED <<chunkerVars, cleanVars, restVars>>

AddFaq == AddFaqOf(FaqTexts, MaxFaqs)

\* result = finder.find_answer(user_question, threshold) for one of the given
\* questions and thresholds
FindAnswerOf(questions, thresholds) ==
    /\ \E user_question \in questions :
          \E best \in {Scan(faqs, user_question)} :
             \E threshold \in thresholds :
                /\ query' = [user_question |-> user_question, threshold |-> threshold]
                /\ result' = Outcome(faqs, best, threshold)
    /\ UNCHANGED <<faqs, chunkerVars, cleanVars, restVars>>

FindAnswer == FindAnswerOf(FaqTexts, Thresholds)

NextFaq == AddFaq \/ FindAnswer

SpecFaq == InitFaq /\ [][NextFaq]_vars

(***************************************************************************)
(* Claims about find_answer                                                *)
(***************************************************************************)
\* result is what find_answer returned for query on the present faqs
Called == result.raised # "not called"

\* the score of entry i for the query of the last call
EntryScore(i) ==
    Jaccard(ScoringWordsOf[CleanOf[query.user_question]],
            ScoringWordsOf[faqs[i].question_clean])

\* the highest score among the entries
BestScore ==
    IF faqs = <<>> THEN Zero
    ELSE CHOOSE sc \in {EntryScore(i) : i \in DOMAIN faqs} :
            \A j \in DOMAIN faqs : ~Less(sc, EntryScore(j))

\* C5: against a non-empty FAQ list, for every query and threshold (0.0
\* included), find_answer returns 'no good match' with the best score as
\* confidence and matched_question None when the best score is below the
\* threshold, and otherwise the answer, the score and the original question
\* of an entry that attains the best score.
C5_ThresholdDecides ==
    (Called /\ faqs # <<>>) =>
        /\ result.raised = ""
        /\ IF Less(BestScore, query.threshold)
           THEN result = Returned(NoGoodMatch, BestScore, <<>>)
           ELSE \E i \in DOMAIN faqs :
                   /\ EntryScore(i) = BestScore
                   /\ result = Returned(faqs[i].answer, BestScore,
                                        <<faqs[i].question>>)

\* the normalized text of the query is that of the stored question i
SameNormalized(i) == CleanOf[query.user_question] = faqs[i].question_clean

\* C6 as stated: a query whose normalized text is that of a stored question
\* gets confidence exactly 1.0 (read on the calls that return a result).
C6_IdenticalScoresOne ==
    (Called /\ result.raised = "") =>
        \A i \in DOMAIN faqs : SameNormalized(i) => result.confidence = One

\* C6 as amended: a query whose normalized text is that of a stored question
\* with at least one word gets confidence exactly 1.0.
C6_IdenticalWithWordsScoresOne ==
    Called =>
        \A i \in DOMAIN faqs :
            (SameNormalized(i) /\ Tokens(faqs[i].question_clean) # {}) =>
                result.raised = "" /\ result.confidence = One

\* a query spelled differently from the stored question it normalizes to
C6_Witness ==
    /\ Called
    /\ \E i \in DOMAIN faqs :
          /\ SameNormalized(i)
          /\ query.user_question # faqs[i].question
          /\ Tokens(faqs[i].question_clean) # {}
    /\ result.confidence = One

\* the first entry, in insertion order, that attains the best score
FirstBest ==
    CHOOSE i \in DOMAIN faqs :
        /\ EntryScore(i) = BestScore
        /\ \A j \in 1..(i - 1) : EntryScore(j) # BestScore

\* C7: when several entries attain the highest score, the entry find_answer
\* returns is the one added first.
C7_FirstWins ==
    (Called /\ result.matched_question # <<>>) =>
        /\ result.answer = faqs[FirstBest].answer
        /\ result.matched_question = <<faqs[FirstBest].question>>

\* two entries with different questions tie at the top and one is returned
C7_Witness ==
    /\ Called
    /\ result.matched_question # <<>>
    /\ \E i, j \in DOMAIN faqs :
          /\ i < j
          /\ EntryScore(i) = BestScore
          /\ EntryScore(j) = BestScore
          /\ faqs[i].question # faqs[j].question
          /\ result.answer = faqs[i].answer

\* C8: with no entry added, find_answer returns confidence 0.0 and
\* matched_question None for every query and threshold, and the list stays
\* empty.
C8_EmptyListNoMatch ==
    (Called /\ faqs = <<>>) =>
        /\ result.raised = ""
        /\ result.confidence = Zero
        /\ result.matched_question = <<>>

\* a call with a query that has words and threshold 0.0 on the empty list
C8_Witness ==
    /\ Called
    /\ faqs = <<>>
    /\ query.threshold = Zero
    /\ Tokens(CleanOf[query.user_question]) # {}

\* 'How do I register?' and 'How can I sign up?'
HowDoIRegister == <<"H", "o", "w", " ", "d", "o", " ", "I", " ", "r", "e", "g", "i", "s", "t", "e", "r", "?">>

HowCanISignUp == <<"H", "o", "w", " ", "c", "a", "n", " ", "I", " ", "s", "i", "g", "n", " ", "u", "p", "?">>

\* the docstring's call: the list holds only ('How do I register?',
\* 'Visit our site.') and find_answer('How can I sign up?') ran with the
\* default threshold 0.15
DocstringCall ==
    /\ Called
    /\ Len(faqs) = 1
    /\ faqs[1].question = HowDoIRegister
    /\ faqs[1].answer = "Visit our site."
    /\ query = [user_question |-> HowCanISignUp, threshold |-> <<3, 20>>]

\* C13: with only ('How do I register?', 'Visit our site.') stored,
\* find_answer('How can I sign up?') with the default threshold 0.15 returns
\* the answer 'Visit our site.', matched_question 'How do I register?' and a
\* confidence greater than 0.15.
C13_DocstringExample ==
    DocstringCall =>
        /\ result.raised = ""
        /\ result.answer = "Visit our site."
        /\ result.matched_question = <<HowDoIRegister>>
        /\ Less(<<3, 20>>, result.confidence)

\* the call returns with confidence 5/6: 'sign' and 'register' expand to the
\* same five words, 'up' is the sixth word of the union
C13_Witness ==
    /\ DocstringCall
    /\ result.raised = ""
    /\ result.confidence = <<5, 6>>

\* a step of add_faq: the earlier result is forgotten, and either a result
\* was there or the list changed
AddFaqStep ==
    /\ query' = NoCall
    /\ result' = NoResult
    /\ (result # NoResult \/ faqs' # faqs)

\* C14: add_faq appends exactly one entry at the end of the list and leaves
\* the entries already there as they are, duplicates of a stored question
\* included; every stored entry, duplicates included, is scored by
\* find_answer, so no entry scores higher than the returned confidence.
C14_AddAppendsOne ==
    /\ [][AddFaqStep =>
             /\ Len(faqs') = Len(faqs) + 1
             /\ SubSeq(faqs', 1, Len(faqs)) = faqs
             /\ faqs'[Len(faqs')].question \in FaqTexts
             /\ faqs'[Len(faqs')].question_clean
                   = CleanOf[faqs'[Len(faqs')].question]]_vars
    /\ [][faqs' # faqs => AddFaqStep]_vars
    /\ [](Called /\ result.raised = "" =>
             \A i \in DOMAIN faqs : ~Less(result.confidence, EntryScore(i)))

\* the same question was added twice, both entries are stored in the order
\* they were added, and find_answer has run on them
C14_Witness ==
    /\ Len(faqs) = 2
    /\ faqs[1].question = faqs[2].question
    /\ faqs[1].answer = AnswerTexts[1]
    /\ faqs[2].answer = AnswerTexts[2]
    /\ Called
    /\ result.raised = ""
    /\ result.confidence = One

(***************************************************************************)
(* FAQFinder.expand_with_synonyms                                          *)
(***************************************************************************)
MaxSynWords == 3

\* words with and without synonyms: 'sign', 'register', 'pay', 'time',
\* 'when', 'venue', 'begin', 'enroll', 'hello'
SynVocabulary ==
    {<<"s", "i", "g", "n">>,
     <<"r", "e", "g", "i", "s", "t", "e", "r">>,
     <<"p", "a", "y">>,
     <<"t", "i", "m", "e">>,
     <<"w", "h", "e", "n">>,
     <<"v", "e", "n", "u", "e">>,
     <<"b", "e", "g", "i", "n">>,
     <<"e", "n", "r", "o", "l", "l">>,
     <<"h", "e", "l", "l", "o">>}

InitSyn ==
    /\ syn_words \in {ws \in SUBSET SynVocabulary : Cardinality(ws) <= MaxSynWords}
    /\ syn_out = {}
    /\ syn_pc = "call"
    /\ LoadIdle
    /\ SimIdle
    /\ DispatchIdle
    /\ ConcIdle
    /\ ChunkerIdle
    /\ CleanIdle
    /\ FaqIdle

\* expanded = finder.expand_with_synonyms(words): the method never writes to
\* the set it is given
ExpandWithSynonyms ==
    /\ syn_pc = "call"
    /\ syn_out' = expand_with_synonyms(syn_words)
    /\ syn_pc' = "done"
    /\ UNCHANGED <<syn_words, loadVars, simVars, dispatchVars, concVars, chunkerVars, cleanVars, faqVars>>

NextSyn == ExpandWithSynonyms

SpecSyn == InitSyn /\ [][NextSyn]_vars

(***************************************************************************)
(* Claims about expand_with_synonyms                                       *)
(***************************************************************************)
\* the synonym lists of the members of ws that are keys of the table
DirectSynonyms(ws) ==
    UNION {{synonyms[w][i] : i \in DOMAIN synonyms[w]} : w \in ws \cap DOMAIN synonyms}

\* C12: expand_with_synonyms(words) returns exactly the union of words with
\* the synonym lists of the members of words that are keys of the table (one
\* level only) and leaves words unchanged; {'sign'} gives
\* {sign, register, signup, join, enroll}.
C12_ExpandIsUnion ==
    /\ [](syn_pc = "done" =>
             /\ syn_out = syn_words \cup DirectSynonyms(syn_words)
             /\ (syn_words = {<<"s", "i", "g", "n">>} =>
                    syn_out = {<<"s", "i", "g", "n">>,
                               <<"r", "e", "g", "i", "s", "t", "e", "r">>,
                               <<"s", "i", "g", "n", "u", "p">>,
                               <<"j", "o", "i", "n">>,
                               <<"e", "n", "r", "o", "l", "l">>}))
    /\ [][syn_words' = syn_words]_vars

\* 'time' has the synonym 'start', and 'start' has the synonym 'begin', which
\* 'time' has not: one level leaves 'begin' out
C12_Witness ==
    /\ syn_pc = "done"
    /\ syn_words = {<<"t", "i", "m", "e">>}
    /\ <<"s", "t", "a", "r", "t">> \in syn_out
    /\ <<"b", "e", "g", "i", "n">> \notin syn_out

(***************************************************************************)
(* FAQFinder.load_from_file                                                *)
(***************************************************************************)
MaxLines == 2

\* The lines of the model's files, as "for line in file" yields them:
\*   'pay|a|b\n', ' join | ok \n', ' \n', 'venue\n', '|x'
FileLines ==
    {<<"p", "a", "y", "|", "a", "|", "b", "\n">>,
     <<" ", "j", "o", "i", "n", " ", "|", " ", "o", "k", " ", "\n">>,
     <<" ", "\n">>,
     <<"v", "e", "n", "u", "e", "\n">>,
     <<"|", "x">>}

RECURSIVE Files(_)
Files(n) ==
    IF n = 0 THEN {<<>>}
    ELSE Files(n - 1) \cup {Append(f, l) : f \in {g \in Files(n - 1) : Len(g) = n - 1}, l \in FileLines}

\* What open(filepath) and the reading can do: the file is missing; it cannot
\* be opened; it is read to its end; or the reading raises on an undecodable
\* byte once fails_after lines have been handed to the loop.
Sources ==
    {NoSource}
    \cup {[exists |-> TRUE, lines |-> f, read_error |-> "", fails_after |-> 0] :
             f \in Files(MaxLines)}
    \cup {[exists |-> TRUE, lines |-> f, read_error |-> "OSError", fails_after |-> 0] :
             f \in Files(MaxLines)}
    \cup UNION {{[exists |-> TRUE, lines |-> f, read_error |-> "UnicodeDecodeError",
                   fails_after |-> k] : k \in 0..Len(f)} :
                f \in Files(MaxLines)}

\* '|' in line
HasPipe(line) == \E i \in DOMAIN line : line[i] = "|"

\* line.split('|') keeping the first two parts only
SplitFirstMut(line) ==
    LET i == CHOOSE k \in DOMAIN line :
                 line[k] = "|" /\ \A j \in 1..(k - 1) : line[j] # "|"
        rest == SubSeq(line, i + 1, Len(line))
        ends == {k \in DOMAIN rest : rest[k] = "|"} \cup {Len(rest) + 1}
        j == CHOOSE k \in ends : \A l \in ends : k <= l
    IN <<SubSeq(line, 1, i - 1), SubSeq(rest, 1, j - 1)>>

\* line.split('|', 1) (line 108) for a line that holds a '|'
SplitFirst(line) ==
    LET i == CHOOSE k \in DOMAIN line :
                 line[k] = "|" /\ \A j \in 1..(k - 1) : line[j] # "|"
    IN <<SubSeq(line, 1, i - 1), SubSeq(line, i + 1, Len(line))>>

\* lines 106-109: one pass of the loop body
LoadLine(fs, raw) ==
    LET line == Strip(raw)
    IN IF line # <<>> /\ HasPipe(line)
       THEN LET parts == SplitFirst(line)
            IN add_faq(fs, Strip(parts[1]), Strip(parts[2]))
       ELSE fs

\* lines 105-109: for line in file, from the i-th line that is read
RECURSIVE LoadLoop(_, _, _)
LoadLoop(fs, lines, i) ==
    IF i > Len(lines) THEN fs
    ELSE LoadLoop(LoadLine(fs, lines[i]), lines, i + 1)

\* the lines the loop gets before the file ends or the reading raises
ReadLines(src) ==
    IF src.read_error = "" THEN src.lines
    ELSE SubSeq(src.lines, 1, src.fails_after)

\* the exception raised inside the try block, "" for none
BodyException(src) ==
    IF ~src.exists THEN "FileNotFoundError" ELSE src.read_error

\* the except clauses, with "except Exception" missing
HandledMut(exception) == exception = "FileNotFoundError"

\* lines 111-114: except FileNotFoundError, except Exception
Handled(exception) ==
    exception \in {"FileNotFoundError", "UnicodeDecodeError", "OSError"}

\* load_from_file (lines 102-114): the list after the call, and whether the
\* call returned or raised
load_from_file(fs, src) ==
    [faqs |-> IF src.exists THEN LoadLoop(fs, ReadLines(src), 1) ELSE fs,
     status |-> IF BodyException(src) = "" \/ Handled(BodyException(src))
                THEN "returned" ELSE "raised"]

\* questions and the threshold of the calls made around load_from_file:
\* 'pay' and '', the default 0.15
LoadTexts == {<<"p", "a", "y">>, <<>>}

InitLoad ==
    /\ FaqIdle
    /\ LoadIdle
    /\ SynIdle
    /\ SimIdle
    /\ DispatchIdle
    /\ ConcIdle
    /\ ChunkerIdle
    /\ CleanIdle

\* finder.load_from_file(filepath)
LoadFromFile ==
    /\ load_status = "not called"
    /\ \E src \in Sources :
          \E r \in {load_from_file(faqs, src)} :
             /\ source' = src
             /\ faqs_before' = faqs
             /\ faqs' = r.faqs
             /\ load_status' = r.status
    /\ query' = NoCall
    /\ result' = NoResult
    /\ UNCHANGED <<synVars, simVars, dispatchVars, concVars, chunkerVars, cleanVars>>

\* add_faq around the load: one entry more than elsewhere, for an entry stored
\* before the call, one loaded and one added afterwards
LoadAddFaq == AddFaqOf(LoadTexts, MaxFaqs + 1)

LoadFindAnswer == FindAnswerOf(LoadTexts, {<<3, 20>>})

NextLoad == LoadFromFile \/ LoadAddFaq \/ LoadFindAnswer

SpecLoad == InitLoad /\ [][NextLoad]_vars

(***************************************************************************)
(* Claims about load_from_file                                             *)
(***************************************************************************)
\* a line that is non-blank after trimming and contains '|'
Qualifies(raw) == Strip(raw) # <<>> /\ "|" \in Range(raw)

\* e is the entry of the line raw: its question is the trimmed text before
\* the first '|' of raw and its answer the trimmed text after it
IsEntryOf(e, raw) ==
    \E i \in DOMAIN raw :
        /\ raw[i] = "|"
        /\ "|" \notin Range(SubSeq(raw, 1, i - 1))
        /\ e.question = Strip(SubSeq(raw, 1, i - 1))
        /\ e.answer = Strip(SubSeq(raw, i + 1, Len(raw)))
        /\ e.question_clean = CleanOf[e.question]

\* the step of a load_from_file call
LoadStep == load_status = "not called" /\ load_status' # "not called"

\* the step kept the entries of the list and appended, in order, exactly the
\* entries of the qualifying lines among lines
LoadedFrom(lines) ==
    LET qual == SelectSeq(lines, Qualifies)
    IN /\ Len(faqs') = Len(faqs) + Len(qual)
       /\ SubSeq(faqs', 1, Len(faqs)) = faqs
       /\ \A k \in DOMAIN qual : IsEntryOf(faqs'[Len(faqs) + k], qual[k])

\* C15: load_from_file adds one entry for each line that is non-blank after
\* trimming and contains '|', split at its first '|' only (question and answer
\* trimmed, the answer may hold further '|'); blank lines and lines without
\* '|' add nothing and raise no error.
C15_LoadSplitsAtFirstPipe ==
    [][LoadStep /\ source'.exists /\ source'.read_error = "" =>
          /\ load_status' = "returned"
          /\ LoadedFrom(source'.lines)]_vars

\* the file 'venue\n', 'pay|a|b\n' was read to its end: the first line added
\* nothing, the second one the answer 'a|b'
C15_Witness ==
    /\ load_status = "returned"
    /\ source.exists
    /\ source.read_error = ""
    /\ source.lines = <<<<"v", "e", "n", "u", "e", "\n">>,
                        <<"p", "a", "y", "|", "a", "|", "b", "\n">>>>
    /\ Len(faqs) = Len(faqs_before) + 1
    /\ faqs[Len(faqs)].question = <<"p", "a", "y">>
    /\ faqs[Len(faqs)].answer = <<"a", "|", "b">>

MaxCandidates == 3

\* The vectors of the model, of 0, 1 and 2 components.  Their components are
\* small whole numbers and their magnitudes are whole numbers too, so every
\* product, sum and square root of lines 82-92 is exact in floating point and
\* the quotient of line 100 is the float nearest to a fraction of small
\* integers: two scores are equal floats exactly when they are equal
\* fractions.
Vectors ==
    {<<>>, <<2>>, <<-1>>, <<0, 0>>, <<3, 4>>, <<4, 3>>, <<-3, -4>>, <<5, 0>>, <<6, 8>>}

\* the names of the candidates, in the order the dict yields them
Names == <<"queen", "car", "truck", "dog", "cat">>

RECURSIVE VectorLists(_)
VectorLists(n) ==
    IF n = 0 THEN {<<>>}
    ELSE VectorLists(n - 1)
         \cup {Append(l, v) : l \in {k \in VectorLists(n - 1) : Len(k) = n - 1}, v \in Vectors}

\* compare_vecs.items(): (name, vector) pairs with distinct names
Items(vecs) == [i \in DOMAIN vecs |-> [name |-> Names[i], vec |-> vecs[i]]]

\* sum(a * b for a, b in zip(vec1, vec2)) (line 82), from the i-th pair on;
\* zip stops at the end of the shorter vector
RECURSIVE DotFrom(_, _, _)
DotFrom(vec1, vec2, i) ==
    IF i > Min(Len(vec1), Len(vec2)) THEN 0
    ELSE vec1[i] * vec2[i] + DotFrom(vec1, vec2, i + 1)

\* math.sqrt of a perfect square
Sqrt(n) == CHOOSE r \in 0..n : r * r = n

\* math.sqrt(sum(a * a for a in vec)) (lines 87 and 92)
Magnitude(vec) == Sqrt(DotFrom(vec, vec, 1))

\* line 76 never seeing a difference
LengthsDifferMut(vec1, vec2) == Len(vec1) # Len(vec1)

\* line 76: len(vec1) != len(vec2)
LengthsDiffer(vec1, vec2) == Len(vec1) # Len(vec2)

\* line 95 asking for both magnitudes to be zero
ZeroMagnitudeMut(magnitude1, magnitude2) == magnitude1 = 0 /\ magnitude2 = 0

\* line 95: magnitude1 == 0 or magnitude2 == 0
ZeroMagnitude(magnitude1, magnitude2) == magnitude1 = 0 \/ magnitude2 = 0

\* a call that returned a score, a call that raised
Score(score) == [raised |-> "", score |-> score]

Raises(exception) == [raised |-> exception]

\* line 100: a float division, which raises on a zero divisor
Quotient(n, d) ==
    IF d = 0 THEN Raises("ZeroDivisionError") ELSE Score(Frac(n, d))

\* cosine_similarity dividing by the square of the first magnitude
cosine_similarityMut(vec1, vec2) ==
    IF LengthsDiffer(vec1, vec2) THEN Raises("ValueError")
    ELSE IF ZeroMagnitude(Magnitude(vec1), Magnitude(vec2)) THEN Score(Zero)
    ELSE Quotient(DotFrom(vec1, vec2, 1), Magnitude(vec1) * Magnitude(vec1))

\* cosine_similarity (lines 76-102)
cosine_similarity(vec1, vec2) ==
    IF LengthsDiffer(vec1, vec2) THEN Raises("ValueError")
    ELSE IF ZeroMagnitude(Magnitude(vec1), Magnitude(vec2)) THEN Score(Zero)
    ELSE Quotient(DotFrom(vec1, vec2, 1), Magnitude(vec1) * Magnitude(vec2))

\* lines 140-144: results after the loop over the items from the i-th on, or
\* the exception a cosine_similarity call raised
RECURSIVE ResultsFrom(_, _, _, _)
ResultsFrom(base, items, i, results) ==
    IF i > Len(items) THEN [raised |-> "", items |-> results]
    ELSE LET similarity == cosine_similarity(base, items[i].vec)
         IN IF similarity.raised # "" THEN Raises(similarity.raised)
            ELSE ResultsFrom(base, items, i + 1,
                             Append(results, [name |-> items[i].name,
                                              score |-> similarity.score]))

\* sorting by score with the equal scores in reverse input order
InsertDescMut(sorted, item) ==
    LET before == {k \in DOMAIN sorted : Less(item.score, sorted[k].score)}
        n == Cardinality(before)
    IN SubSeq(sorted, 1, n) \o <<item>> \o SubSeq(sorted, n + 1, Len(sorted))

\* sorted(..., key=lambda x: x[1], reverse=True) (line 149) is stable: an
\* item goes behind the items placed earlier whose score is not lower
InsertDesc(sorted, item) ==
    LET before == {k \in DOMAIN sorted : ~Less(sorted[k].score, item.score)}
        n == Cardinality(before)
    IN SubSeq(sorted, 1, n) \o <<item>> \o SubSeq(sorted, n + 1, Len(sorted))

RECURSIVE SortedFrom(_, _, _)
SortedFrom(items, i, sorted) ==
    IF i > Len(items) THEN sorted
    ELSE SortedFrom(items, i + 1, InsertDesc(sorted, items[i]))

\* compare_multiple (lines 136-151)
compare_multiple(base, items) ==
    LET results == ResultsFrom(base, items, 1, <<>>)
    IN IF results.raised # "" THEN results
       ELSE [raised |-> "", items |-> SortedFrom(results.items, 1, <<>>)]

\* a script makes either two cosine_similarity calls or one compare_multiple
\* call
InitSim ==
    /\ base_vec \in Vectors
    /\ other_vec = <<>>
    /\ sim_ab = NotCalled
    /\ sim_ba = NotCalled
    /\ ranking = NotCalled
    /\ \/ sim_pc = "cosine" /\ compare_vecs = <<>>
       \/ sim_pc = "compare" /\ compare_vecs \in {Items(l) : l \in VectorLists(MaxCandidates)}
    /\ SynIdle
    /\ LoadIdle
    /\ DispatchIdle
    /\ ConcIdle
    /\ ChunkerIdle
    /\ CleanIdle
    /\ FaqIdle

\* sim.cosine_similarity(base_vec, other_vec)
Cosine ==
    /\ sim_pc = "cosine"
    /\ \E v \in Vectors :
          /\ other_vec' = v
          /\ sim_ab' = cosine_similarity(base_vec, v)
    /\ sim_pc' = "swapped"
    /\ UNCHANGED <<base_vec, compare_vecs, sim_ba, ranking>>
    /\ UNCHANGED <<synVars, loadVars, dispatchVars, concVars, chunkerVars, cleanVars, faqVars>>

\* sim.cosine_similarity(other_vec, base_vec)
CosineSwapped ==
    /\ sim_pc = "swapped"
    /\ sim_ba' = cosine_similarity(other_vec, base_vec)
    /\ sim_pc' = "done"
    /\ UNCHANGED <<base_vec, compare_vecs, other_vec, sim_ab, ranking>>
    /\ UNCHANGED <<synVars, loadVars, dispatchVars, concVars, chunkerVars, cleanVars, faqVars>>

\* sim.compare_multiple(base_vec, compare_vecs)
CompareMultiple ==
    /\ sim_pc = "compare"
    /\ ranking' = compare_multiple(base_vec, compare_vecs)
    /\ sim_pc' = "done"
    /\ UNCHANGED <<base_vec, compare_vecs, other_vec, sim_ab, sim_ba>>
    /\ UNCHANGED <<synVars, loadVars, dispatchVars, concVars, chunkerVars, cleanVars, faqVars>>

NextSim == Cosine \/ CosineSwapped \/ CompareMultiple

SpecSim == InitSim /\ [][NextSim]_vars

(***************************************************************************)
(* Claims about cosine_similarity and compare_multiple                     *)
(***************************************************************************)
\* the call raised ValueError and returned nothing
RaisedValueError(call) == call.raised = "ValueError" /\ DOMAIN call = {"raised"}

\* C17: cosine_similarity raises ValueError, returning no score, whenever the
\* two vectors differ in length; compare_multiple then returns no ranking at
\* all when any candidate's length differs from the base vector's.
C17_MismatchRaises ==
    /\ (sim_ab # NotCalled /\ Len(base_vec) # Len(other_vec) => RaisedValueError(sim_ab))
    /\ (sim_ba # NotCalled /\ Len(base_vec) # Len(other_vec) => RaisedValueError(sim_ba))
    /\ (/\ ranking # NotCalled
        /\ \E i \in DOMAIN compare_vecs : Len(compare_vecs[i].vec) # Len(base_vec)
        => RaisedValueError(ranking))

\* the first candidate has the base vector's length and the second has not:
\* the score already computed is lost with the ranking
C17_Witness ==
    /\ ranking # NotCalled
    /\ Len(base_vec) = 2
    /\ Len(compare_vecs) = 2
    /\ Len(compare_vecs[1].vec) = 2
    /\ Len(compare_vecs[2].vec) = 1
    /\ RaisedValueError(ranking)

AllZero(vec) == \A i \in DOMAIN vec : vec[i] = 0

\* C18: for equal-length vectors of which at least one has magnitude zero
\* (all components zero, or both empty), cosine_similarity returns exactly 0.0
\* and raises no division error.
C18_ZeroMagnitudeGivesZero ==
    /\ sim_ab # NotCalled
    /\ Len(base_vec) = Len(other_vec)
    /\ (AllZero(base_vec) \/ AllZero(other_vec))
    => /\ sim_ab.raised = ""
       /\ sim_ab.score = Zero

\* only the first of the two vectors is a zero vector
C18_Witness ==
    /\ sim_ab # NotCalled
    /\ base_vec = <<0, 0>>
    /\ other_vec = <<3, 4>>
    /\ sim_ab = Score(Zero)

\* C19: cosine_similarity is symmetric: for equal-length a and b,
\* cosine_similarity(a, b) equals cosine_similarity(b, a).
C19_Symmetric ==
    /\ sim_ba # NotCalled
    /\ Len(base_vec) = Len(other_vec)
    => /\ sim_ab.raised = ""
       /\ sim_ba.raised = ""
       /\ sim_ab.score = sim_ba.score

\* (3, 4) and (5, 0), of magnitudes 5 and 5 and dot product 15: 0.6 both ways
C19_Witness ==
    /\ sim_ba # NotCalled
    /\ base_vec = <<3, 4>>
    /\ other_vec = <<5, 0>>
    /\ sim_ab = Score(<<3, 5>>)
    /\ sim_ba = Score(<<3, 5>>)

\* the place of a name in the input mapping
InputPlace(name) == CHOOSE i \in DOMAIN compare_vecs : compare_vecs[i].name = name

\* C20: compare_multiple returns one (name, score) pair for every candidate
\* name, ordered by score descending, and candidates with equal scores keep
\* the relative order of the input mapping.
C20_RankingSortedStable ==
    ranking # NotCalled /\ ranking.raised = "" =>
        /\ Len(ranking.items) = Len(compare_vecs)
        /\ \A i \in DOMAIN compare_vecs :
              Cardinality({p \in DOMAIN ranking.items :
                              ranking.items[p].name = compare_vecs[i].name}) = 1
        /\ \A p \in DOMAIN ranking.items :
              Score(ranking.items[p].score)
                 = cosine_similarity(base_vec,
                                     compare_vecs[InputPlace(ranking.items[p].name)].vec)
        /\ \A p, q \in DOMAIN ranking.items :
              p < q =>
                 /\ ~Less(ranking.items[p].score, ranking.items[q].score)
                 /\ (ranking.items[p].score = ranking.items[q].score =>
                        InputPlace(ranking.items[p].name)
                           < InputPlace(ranking.items[q].name))

\* base (3, 4) against queen (4, 3), car (3, 4), truck (6, 8): car and truck
\* both score 1.0 and keep their order, queen with 0.96 comes last
C20_Witness ==
    /\ ranking # NotCalled
    /\ base_vec = <<3, 4>>
    /\ Len(compare_vecs) = 3
    /\ compare_vecs[1].vec = <<4, 3>>
    /\ compare_vecs[2].vec = <<3, 4>>
    /\ compare_vecs[3].vec = <<6, 8>>
    /\ ranking.raised = ""
    /\ ranking.items = <<[name |-> "car", score |-> One],
                         [name |-> "truck", score |-> One],
                         [name |-> "queen", score |-> <<24, 25>>]>>

(***************************************************************************)
(* TextChunker.chunk_text and get_chunk_stats                              *)
(***************************************************************************)
MaxDispatchLen == 2
MaxCalls == 2

\* method arguments: the two names the code knows, and others
Methods == {"words", "sentences", "paragraphs", ""}

\* text arguments: every short text, and 'a. a.', 'a. a. a.', 'a a a'
DispatchTexts ==
    Strings(SentAlphabet, MaxDispatchLen)
        \cup {<<"a", ".", " ", "a", ".">>,
              <<"a", ".", " ", "a", ".", " ", "a", ".">>,
              <<"a", " ", "a", " ", "a">>}

\* chunk_text falling back to the default strategy for an unknown name
RouteMut(method) ==
    IF method = "words" THEN "chunk_by_words" ELSE "chunk_by_sentences"

\* chunk_text (lines 313-318): the if / elif / else on method
Route(method) ==
    IF method = "words" THEN "chunk_by_words"
    ELSE IF method = "sentences" THEN "chunk_by_sentences"
    ELSE "ValueError"

\* a chunker that has been constructed and not used yet
\* chunk_id carried over from the call before
FirstChunkIdMut(previous) == previous

\* lines 180 and 254: chunk_id = 0 at the start of every call, whatever the
\* call before left
FirstChunkId(previous) == 0

InitChunk ==
    /\ chunk_size \in 1..MaxSentChunkSize
    /\ overlap \in 0..1
    /\ text = <<>>
    /\ words = <<>>
    /\ start = 0
    /\ sentences = <<>>
    /\ idx = 0
    /\ current_chunk = <<>>
    /\ current_word_count = 0
    /\ chunk_id = 0
    /\ chunks = <<>>
    /\ pc = "done"
    /\ DispatchIdle
    /\ ConcIdle
    /\ SynIdle
    /\ LoadIdle
    /\ SimIdle
    /\ CleanIdle
    /\ FaqIdle

\* chunker.chunk_text(text, method), up to the first pass of the strategy's
\* loop: the locals of the strategy are fresh on every call (lines 177-180,
\* 250-254); an unknown method raises before any of them exists (line 318)
ChunkText ==
    /\ pc # "loop"
    /\ calls < MaxCalls
    /\ \E t \in DispatchTexts, m \in Methods :
          /\ text' = t
          /\ chunk_method' = m
          /\ routed' = Route(m)
          /\ words' = IF Route(m) = "chunk_by_words" THEN Split(t) ELSE <<>>
          /\ sentences' = IF Route(m) = "chunk_by_sentences"
                          THEN split_into_sentences(t) ELSE <<>>
          /\ pc' = IF Route(m) = "ValueError" THEN "raised" ELSE "loop"
    /\ start' = 0
    /\ idx' = 0
    /\ current_chunk' = <<>>
    /\ current_word_count' = 0
    /\ chunk_id' = FirstChunkId(chunk_id)
    /\ chunks' = <<>>
    /\ calls' = calls + 1
    /\ stats' = NotCalled
    /\ UNCHANGED <<chunk_size, overlap, synVars, loadVars, simVars, concVars, cleanVars, faqVars>>

\* the strategy chunk_text returned into
ChunkByWords == routed = "chunk_by_words" /\ NextWords

ChunkBySentences == routed = "chunk_by_sentences" /\ NextSent

\* if not chunks (line 337) never taking the branch
NoChunksMut(chs) == chs # chs

\* line 337: if not chunks
NoChunks(chs) == chs = <<>>

\* sum(word_counts), min(word_counts), max(word_counts)
RECURSIVE SumOf(_)
SumOf(counts) == IF counts = <<>> THEN 0 ELSE Head(counts) + SumOf(Tail(counts))

MinOf(counts) == CHOOSE m \in Range(counts) : \A n \in Range(counts) : m <= n

MaxOf(counts) == CHOOSE m \in Range(counts) : \A n \in Range(counts) : m >= n

\* get_chunk_stats (lines 337-351)
get_chunk_stats(chs) ==
    IF NoChunks(chs) THEN [error |-> "No chunks provided"]
    ELSE LET word_counts == [k \in DOMAIN chs |-> chs[k].word_count]
             avg == Quotient(SumOf(word_counts), Len(word_counts))
         IN IF avg.raised # "" THEN Raises(avg.raised)
            ELSE [total_chunks |-> Len(chs),
                  avg_words_per_chunk |-> avg.score,
                  min_words |-> MinOf(word_counts),
                  max_words |-> MaxOf(word_counts),
                  total_words |-> SumOf(word_counts),
                  method |-> chs[1].method]

\* chunker.get_chunk_stats(chunks) on the list the last call returned
GetChunkStats ==
    /\ pc = "done"
    /\ stats = NotCalled
    /\ stats' = get_chunk_stats(chunks)
    /\ UNCHANGED <<chunk_method, routed, calls>>
    /\ UNCHANGED <<chunkerVars, synVars, loadVars, simVars, concVars, cleanVars, faqVars>>

NextChunk == ChunkText \/ ChunkByWords \/ ChunkBySentences \/ GetChunkStats

SpecChunk == InitChunk /\ [][NextChunk]_vars

(***************************************************************************)
(* Claims about chunk_text and get_chunk_stats                             *)
(***************************************************************************)
\* C21: chunk_text dispatches 'words' to chunk_by_words and 'sentences' to
\* chunk_by_sentences, and for every other method name raises ValueError
\* without producing any chunk.
C21_Dispatch ==
    calls > 0 =>
        /\ chunk_method = "words" =>
              /\ routed = "chunk_by_words"
              /\ pc \in {"loop", "done"}
              /\ words = Split(text)
              /\ \A k \in DOMAIN chunks : chunks[k].method = "word-based"
              /\ (pc = "done" /\ words # <<>> => chunks # <<>>)
        /\ chunk_method = "sentences" =>
              /\ routed = "chunk_by_sentences"
              /\ pc \in {"loop", "done"}
              /\ sentences = split_into_sentences(text)
              /\ \A k \in DOMAIN chunks : chunks[k].method = "sentence-based"
              /\ (pc = "done" /\ sentences # <<>> => chunks # <<>>)
        /\ chunk_method \notin {"words", "sentences"} =>
              /\ routed = "ValueError"
              /\ pc = "raised"
              /\ chunks = <<>>

\* a second call with an unknown method, on a text both strategies would
\* have chunked
C21_Witness ==
    /\ calls = 2
    /\ chunk_method = "paragraphs"
    /\ text = <<"a", ".", " ", "a", ".">>
    /\ pc = "raised"
    /\ chunks = <<>>

\* C27: in the list one call of chunk_by_words or chunk_by_sentences returns,
\* the chunk at position i (counted from 0) has chunk_id i: ids start at 0 on
\* every call and grow by one, whatever calls the chunker served before.
C27_IdsArePositions ==
    (calls > 0 /\ pc = "done") =>
        \A k \in 1..Len(chunks) : chunks[k].chunk_id = k - 1

\* the second call on a chunker, by sentences, returning three chunks
C27_Witness ==
    /\ calls = 2
    /\ pc = "done"
    /\ routed = "chunk_by_sentences"
    /\ Len(chunks) = 3
    /\ chunks[1].chunk_id = 0
    /\ chunks[3].chunk_id = 2

\* the sum of the chunks' word_count, chunk by chunk
RECURSIVE WordsUpTo(_)
WordsUpTo(k) == IF k = 0 THEN 0 ELSE WordsUpTo(k - 1) + chunks[k].word_count

\* C22: get_chunk_stats of an empty chunk sequence returns an error marker and
\* no statistics fields instead of dividing by zero; of a non-empty one it
\* returns total_chunks = number of chunks, total_words = sum of the chunks'
\* word_count, and min_words <= avg_words_per_chunk <= max_words.
C22_StatsOrMarker ==
    stats # NotCalled =>
        IF chunks = <<>>
        THEN stats = [error |-> "No chunks provided"]
        ELSE /\ DOMAIN stats = {"total_chunks", "avg_words_per_chunk", "min_words",
                                "max_words", "total_words", "method"}
             /\ stats.total_chunks = Len(chunks)
             /\ stats.total_words = WordsUpTo(Len(chunks))
             /\ ~Less(stats.avg_words_per_chunk, <<stats.min_words, 1>>)
             /\ ~Less(<<stats.max_words, 1>>, stats.avg_words_per_chunk)

\* a text of blanks gives no chunk, and the statistics of no chunk are the
\* marker
C22_Witness ==
    /\ calls = 1
    /\ chunk_method = "sentences"
    /\ text = <<" ", " ">>
    /\ pc = "done"
    /\ chunks = <<>>
    /\ stats = [error |-> "No chunks provided"]

(***************************************************************************)
(* Concurrent find_answer calls on one FAQFinder                           *)
(***************************************************************************)
MaxCallers == 2

\* 'How do I register?', 'pay'
ConcQuestions ==
    {<<"H", "o", "w", " ", "d", "o", " ", "I", " ", "r", "e", "g", "i", "s", "t", "e", "r", "?">>,
     <<"p", "a", "y">>}

\* 'How can I sign up?', 'What is the fee?', 'How do I'
ConcQueries ==
    {<<"H", "o", "w", " ", "c", "a", "n", " ", "I", " ", "s", "i", "g", "n", " ", "u", "p", "?">>,
     <<"W", "h", "a", "t", " ", "i", "s", " ", "t", "h", "e", " ", "f", "e", "e", "?">>,
     <<"H", "o", "w", " ", "d", "o", " ", "I">>}

\* the lists add_faq builds from at most n of the questions
RECURSIVE FaqLists(_)
FaqLists(n) ==
    IF n = 0 THEN {<<>>}
    ELSE LET shorter == FaqLists(n - 1)
         IN shorter \cup
            {add_faq(fs, q, AnswerTexts[n]) :
                fs \in {l \in shorter : Len(l) = n - 1}, q \in ConcQuestions}

\* every call frame of a thread is the caller's alone; here all callers
\* share one
FrameMut(caller) == 1

\* user_clean, user_words_raw, user_words, best_match, best_score, faq and the
\* loop iterator are local variables of find_answer (lines 169-219): each
\* call has a frame of its own
Frame(caller) == caller

Waiting == [pc |-> "idle", user_question |-> <<>>, threshold |-> Zero, result |-> NoResult]

NoFrame ==
    [user_question |-> <<>>, threshold |-> Zero, user_words |-> {}, i |-> 0,
     best_match |-> 0, best_score |-> Zero]

\* lines 173-181 and 191-197, reading the finder's stop_words and synonyms
ScoringWordsWith(stops, table, clean) ==
    LET raw == Tokens(clean) \ stops
        expanded == raw \cup UNION {Range(table[w]) : w \in raw \cap DOMAIN table}
    IN IF expanded = {} THEN Tokens(clean) ELSE expanded

InitConc ==
    /\ faqs \in FaqLists(MaxFaqs)
    /\ query = NoCall
    /\ result = NoResult
    /\ self_stop_words = stop_words
    /\ self_synonyms = synonyms
    /\ callers = [c \in 1..MaxCallers |-> Waiting]
    /\ frames = [f \in 1..MaxCallers |-> NoFrame]
    /\ ChunkerIdle
    /\ CleanIdle
    /\ SynIdle
    /\ LoadIdle
    /\ SimIdle
    /\ DispatchIdle

\* a thread calls finder.find_answer(user_question) with the default
\* threshold 0.15: the arguments are bound in the new frame
Enter(c) ==
    /\ callers[c].pc = "idle"
    /\ \E q \in ConcQueries, th \in {<<3, 20>>} :
          /\ callers' = [callers EXCEPT ![c] =
                            [pc |-> "check", user_question |-> q, threshold |-> th,
                             result |-> NoResult]]
          /\ frames' = [frames EXCEPT ![Frame(c)] =
                           [NoFrame EXCEPT !.user_question = q, !.threshold = th]]
    /\ UNCHANGED <<faqVars, self_stop_words, self_synonyms, chunkerVars, cleanVars,
                    synVars, loadVars, simVars, dispatchVars>>

\* lines 160-165: if not self.faqs: return
CheckLoaded(c) ==
    /\ callers[c].pc = "check"
    /\ IF NoFaqsLoaded(faqs)
       THEN callers' = [callers EXCEPT ![c].pc = "done",
                                       ![c].result = Returned(NoFaqsMessage, Zero, <<>>)]
       ELSE callers' = [callers EXCEPT ![c].pc = "tokens"]
    /\ UNCHANGED frames
    /\ UNCHANGED <<faqVars, self_stop_words, self_synonyms, chunkerVars, cleanVars,
                    synVars, loadVars, simVars, dispatchVars>>

\* lines 169-185: user_words, best_match = None, best_score = 0.0
UserWords(c) ==
    /\ callers[c].pc = "tokens"
    /\ frames' = [frames EXCEPT ![Frame(c)].user_words =
                     ScoringWordsWith(self_stop_words, self_synonyms,
                                      CleanOf[frames[Frame(c)].user_question]),
                                ![Frame(c)].i = 0,
                                ![Frame(c)].best_match = 0,
                                ![Frame(c)].best_score = Zero]
    /\ callers' = [callers EXCEPT ![c].pc = "loop"]
    /\ UNCHANGED <<faqVars, self_stop_words, self_synonyms, chunkerVars, cleanVars,
                    synVars, loadVars, simVars, dispatchVars>>

\* lines 188-219: one pass of for faq in self.faqs
Iterate(c) ==
    LET frame == frames[Frame(c)]
    IN /\ callers[c].pc = "loop"
       /\ frame.i < Len(faqs)
       /\ \E score \in {Jaccard(frame.user_words,
                               ScoringWordsWith(self_stop_words, self_synonyms,
                                                faqs[frame.i + 1].question_clean))} :
             frames' = [frames EXCEPT ![Frame(c)] =
                          IF Beats(score, frame.best_score)
                          THEN [frame EXCEPT !.i = frame.i + 1,
                                             !.best_match = frame.i + 1,
                                             !.best_score = score]
                          ELSE [frame EXCEPT !.i = frame.i + 1]]
       /\ UNCHANGED callers
       /\ UNCHANGED <<faqVars, self_stop_words, self_synonyms, chunkerVars, cleanVars,
                    synVars, loadVars, simVars, dispatchVars>>

\* lines 222-233 once the iterator is exhausted
Return(c) ==
    LET frame == frames[Frame(c)]
    IN /\ callers[c].pc = "loop"
       /\ frame.i >= Len(faqs)
       /\ callers' = [callers EXCEPT ![c].pc = "done",
                                     ![c].result =
                                         Outcome(faqs,
                                                 [best_match |-> frame.best_match,
                                                  best_score |-> frame.best_score],
                                                 frame.threshold)]
       /\ UNCHANGED frames
       /\ UNCHANGED <<faqVars, self_stop_words, self_synonyms, chunkerVars, cleanVars,
                    synVars, loadVars, simVars, dispatchVars>>

NextConc ==
    \E c \in 1..MaxCallers :
        Enter(c) \/ CheckLoaded(c) \/ UserWords(c) \/ Iterate(c) \/ Return(c)

SpecConc == InitConc /\ [][NextConc]_vars

(***************************************************************************)
(* Claims about concurrent find_answer calls                               *)
(***************************************************************************)
\* every finished call holds what find_answer gives for its arguments when
\* it runs alone on the list
AloneResults ==
    \A c \in 1..MaxCallers :
        callers[c].pc = "done" =>
            callers[c].result =
                find_answer(faqs, callers[c].user_question, callers[c].threshold)

\* C23: find_answer writes no shared state: every step of every call leaves
\* the FAQ list, the stop-word set and the synonym table unchanged, and under
\* any interleaving of concurrent calls on a fixed FAQ list each call returns
\* what it returns when run alone.
C23_ConcurrentCallsIndependent ==
    /\ []AloneResults
    /\ [][/\ faqs' = faqs
          /\ self_stop_words' = self_stop_words
          /\ self_synonyms' = self_synonyms]_vars

\* the second call ran from start to end, and found the 'pay' entry, while
\* the first call, asking about signing up, was inside its loop
C23_Witness ==
    /\ Len(faqs) = 2
    /\ callers[1].pc = "loop"
    /\ frames[1].i = 1
    /\ frames[1].best_match = 1
    /\ callers[1].user_question # callers[2].user_question
    /\ callers[2].pc = "done"
    /\ callers[2].result.matched_question = <<<<"p", "a", "y">>>>

(***************************************************************************)
(* Claims about the word sets find_answer scores                           *)
(***************************************************************************)
\* the normalized texts of the last call: the query and the stored questions
ScoredTexts ==
    {CleanOf[query.user_question]} \cup {faqs[i].question_clean : i \in DOMAIN faqs}

\* C24: for every query and every stored question that contains at least one
\* token that is no stop word, the word set find_answer uses in the Jaccard
\* intersection and union contains no stop word.
C24_NoStopWordScored ==
    (Called /\ faqs # <<>>) =>
        \A clean \in ScoredTexts :
            Tokens(clean) \ stop_words # {} =>
                ScoringWordsOf[clean] \cap stop_words = {}

\* C25: when every token of the query, or of a stored question, is a stop word
\* the word set find_answer scores is the full token set of that text; in
\* every other case it is the stop-word-filtered token set together with the
\* synonym lists of its members.
C25_FallbackToAllTokens ==
    (Called /\ faqs # <<>>) =>
        \A clean \in ScoredTexts :
            LET raw == Tokens(clean) \ stop_words
            IN ScoringWordsOf[clean] =
                  IF raw = {} THEN Tokens(clean) ELSE raw \cup DirectSynonyms(raw)

\* 'How do I' asked against the stored question 'How do I': all tokens are
\* stop words on both sides, both sets fall back to {how, do, i} and match
\* with score 1
C25_Witness ==
    /\ Called
    /\ query.user_question = <<"H", "o", "w", " ", "d", "o", " ", "I">>
    /\ Len(faqs) = 2
    /\ faqs[2].question = query.user_question
    /\ faqs[1].question = <<"p", "a", "y">>
    /\ result.matched_question = <<query.user_question>>
    /\ result.confidence = One

====
